---- MODULE Spec2Model ----
(***************************************************************************)
(* Model of the sales-analysis pipeline of app.py and analytics_engine.py: *)
(* the value normalizer (clean_currency), the column classifier (get_col), *)
(* the amount resolver (process_file_stream), the table merger (dashboard, *)
(* merge_history), the metrics engine (generate_dashboard_data) and the    *)
(* forecaster (forecast_sales).                                            *)
(*                                                                         *)
(* A Python string is a sequence of one-character strings; the rupee glyph *)
(* is written "Rs".  A table cell is a record [k, v, s]: k = "num" is a    *)
(* number v, k = "nan" the missing marker, k = "str" the string s.         *)
(***************************************************************************)
EXTENDS Integers, Sequences, FiniteSets, TLC

VARIABLES
  pc,        \* which step of the run has been taken
  value,     \* clean_currency: the cell value passed in
  once,      \* clean_currency(value)
  twice,     \* clean_currency(clean_currency(value))
  file,      \* the table read from an uploaded file (read_csv / read_excel)
  role_map,  \* prod_col, qty_col, rate_col, amt_col, date_col of process_file_stream
  df,        \* the table process_file_stream returns, the table given to the analytics
  fit,       \* forecast_sales: y, slope and intercept (numerators over fit.den)
  forecast,  \* forecast_sales: the returned number, num / den
  data,      \* the dictionary generate_dashboard_data returns
  all_dfs,   \* dashboard / merge_history: the processed tables, in order
  session,   \* the Flask session: user (e-mail) and user_id
  upload_history,  \* the rows of the upload_history database table, by id
  history_data     \* the ids of the upload_history rows the last request fetched

vars == <<pc, value, once, twice, file, role_map, df, fit, forecast, data,
          all_dfs, session, upload_history, history_data>>

appvars == <<data, all_dfs, session, upload_history, history_data>>

\* ------------------------------------------------------------------ bounds
MaxLen == 4

MaxNames == 3

MaxCols == 2

MaxRows == 2

MaxCells == 4

MaxPoints == 4

MaxDated == 3

MaxHistory == 2

MaxFileRows == 2

MaxSelected == 2

\* rows of a normalized table given to the metrics engine
MaxOrders == 4

\* ------------------------------------------------------------------ cells
\* F applied to the value of x, x evaluated once (a local variable assignment)
With(x, F(_)) == CHOOSE r \in {F(v) : v \in {x}} : TRUE

Num(n) == [k |-> "num", v |-> n, s |-> <<>>]

NaN == [k |-> "nan", v |-> 0, s |-> <<>>]

Str(t) == [k |-> "str", v |-> 0, s |-> t]

None == [k |-> "none", v |-> 0, s |-> <<>>]

\* a cell as a number, missing counted as 0
Val0(c) == IF c.k = "num" THEN c.v ELSE 0

\* A DataFrame: the column names in order and the rows in order, each row a
\* sequence of cells aligned with the column names.
NoTable == [columns |-> <<>>, rows |-> <<>>]

\* a rational number num / den, den > 0
Rat(n, d) == [num |-> n, den |-> d]

NoForecast == [num |-> -1, den |-> 0]

NoFit == [order |-> <<>>, y |-> <<>>, slope |-> 0, intercept |-> 0, den |-> 0]

NoData == [status |-> "none", total_revenue |-> 0, total_orders |-> 0,
           avg_order_value |-> 0, unique_products |-> 0, sales_by_product |-> <<>>,
           sales_trend |-> <<>>, next_sales_prediction |-> NoForecast, insights |-> <<>>]

\* no request has set session["user"] or session["user_id"] yet
NoSession == [user |-> "", user_id |-> 0]

\* ------------------------------------------------------------------ strings
Alphabet == {",", "Rs", "/", "-", " ", "1"}

RECURSIVE StringsUpTo(_)
StringsUpTo(n) ==
  IF n = 0 THEN {<<>>}
  ELSE LET shorter == StringsUpTo(n - 1)
       IN  shorter \cup {Append(t, c) : t \in {u \in shorter : Len(u) = n - 1}, c \in Alphabet}

\* str.replace(ch, "") for a one-character ch
RemoveChar(t, ch) == SelectSeq(t, LAMBDA c : c # ch)

\* str.replace("/-", ""): leftmost, non-overlapping occurrences, one pass
RECURSIVE RemoveSlashDash(_)
RemoveSlashDash(t) ==
  IF Len(t) < 2 THEN t
  ELSE IF t[1] = "/" /\ t[2] = "-" THEN RemoveSlashDash(SubSeq(t, 3, Len(t)))
  ELSE <<t[1]>> \o RemoveSlashDash(Tail(t))

RECURSIVE LStrip(_)
LStrip(t) == IF t # <<>> /\ t[1] = " " THEN LStrip(Tail(t)) ELSE t

RECURSIVE RStrip(_)
RStrip(t) == IF t # <<>> /\ t[Len(t)] = " " THEN RStrip(SubSeq(t, 1, Len(t) - 1)) ELSE t

Strip(t) == RStrip(LStrip(t))

clean_currency(c) ==
  IF c.k = "str"
  THEN Str(Strip(RemoveSlashDash(RemoveChar(RemoveChar(c.s, ","), "Rs"))))
  ELSE c


\* ------------------------------------------------------------------ column names and keywords
s_product == <<"p", "r", "o", "d", "u", "c", "t">>

s_item == <<"i", "t", "e", "m">>

s_description == <<"d", "e", "s", "c", "r", "i", "p", "t", "i", "o", "n">>

s_particular == <<"p", "a", "r", "t", "i", "c", "u", "l", "a", "r">>

s_material == <<"m", "a", "t", "e", "r", "i", "a", "l">>

s_qty == <<"q", "t", "y">>

s_quantity == <<"q", "u", "a", "n", "t", "i", "t", "y">>

s_units == <<"u", "n", "i", "t", "s">>

s_nos == <<"n", "o", "s">>

s_rate == <<"r", "a", "t", "e">>

s_price == <<"p", "r", "i", "c", "e">>

s_amount == <<"a", "m", "o", "u", "n", "t">>

s_total == <<"t", "o", "t", "a", "l">>

s_value == <<"v", "a", "l", "u", "e">>

s_net == <<"n", "e", "t">>

s_gross == <<"g", "r", "o", "s", "s">>

s_bill_amount == <<"b", "i", "l", "l", " ", "a", "m", "o", "u", "n", "t">>

s_invoice_amount == <<"i", "n", "v", "o", "i", "c", "e", " ", "a", "m", "o", "u", "n", "t">>

s_sales_value == <<"s", "a", "l", "e", "s", " ", "v", "a", "l", "u", "e">>

s_date == <<"d", "a", "t", "e">>

s_time == <<"t", "i", "m", "e">>

s_day == <<"d", "a", "y">>

s_Unknown_Item == <<"U", "n", "k", "n", "o", "w", "n", " ", "I", "t", "e", "m">>

\* headers as they appear in uploaded files
c_Item == <<"I", "t", "e", "m">>

c_particulars == <<"p", "a", "r", "t", "i", "c", "u", "l", "a", "r", "s">>

c_QTY == <<"Q", "T", "Y">>

c_Rate == <<"R", "a", "t", "e">>

c_Net_Total == <<"N", "e", "t", " ", "T", "o", "t", "a", "l">>

c_sales == <<"s", "a", "l", "e", "s">>

c_Date == <<"D", "a", "t", "e">>

\* the value get_col returns when no column matches (Python None)
NoCol == <<"None">>

UpperCase == <<"A", "B", "C", "D", "E", "F", "G", "H", "I", "J", "K", "L", "M", "N", "O", "P", "Q", "R", "S", "T", "U", "V", "W", "X", "Y", "Z">>

LowerCase == <<"a", "b", "c", "d", "e", "f", "g", "h", "i", "j", "k", "l", "m", "n", "o", "p", "q", "r", "s", "t", "u", "v", "w", "x", "y", "z">>

LowerChar(c) ==
  IF \E i \in 1..26 : UpperCase[i] = c
  THEN LowerCase[CHOOSE i \in 1..26 : UpperCase[i] = c]
  ELSE c

\* str.lower()
Lower(t) == [i \in 1..Len(t) |-> LowerChar(t[i])]

\* df.columns.str.lower()
LowerAll(cols) == [i \in 1..Len(cols) |-> Lower(cols[i])]

\* Python's `k in col` for strings
Contains(t, kw) ==
  \E i \in 1..(Len(t) - Len(kw) + 1) : SubSeq(t, i, i + Len(kw) - 1) = kw

Roles == {"product", "quantity", "rate", "amount", "date"}

\* the keyword lists passed to get_col
Keywords ==
  [product  |-> {s_product, s_item, s_description, s_particular},
   quantity |-> {s_qty, s_quantity, s_units, s_nos},
   rate     |-> {s_rate, s_price},
   amount   |-> {s_amount, s_total, s_value, s_net},
   date     |-> {s_date, s_time, s_day}]

RECURSIVE get_col_LastMatch(_, _)
get_col_LastMatch(cols, keywords) ==
  IF cols = <<>> THEN NoCol
  ELSE IF \E k \in keywords : Contains(cols[Len(cols)], k) THEN cols[Len(cols)]
  ELSE get_col_LastMatch(SubSeq(cols, 1, Len(cols) - 1), keywords)

RECURSIVE get_col(_, _)
get_col(cols, keywords) ==
  IF cols = <<>> THEN NoCol
  ELSE IF \E k \in keywords : Contains(Head(cols), k) THEN Head(cols)
  ELSE get_col(Tail(cols), keywords)

\* prod_col, qty_col, rate_col, amt_col, date_col
DetectColumns(cols) == [r \in Roles |-> get_col(cols, Keywords[r])]

NoRoles == [r \in Roles |-> NoCol]

\* ------------------------------------------------------------------ value normalizer runs
CleanValues == {Str(t) : t \in StringsUpTo(MaxLen)} \cup {Num(0), Num(1), NaN}

InitClean ==
  /\ pc = "value"
  /\ value \in CleanValues
  /\ once = None
  /\ twice = None
  /\ file = NoTable
  /\ role_map = NoRoles
  /\ df = NoTable
  /\ fit = NoFit
  /\ forecast = NoForecast
  /\ data = NoData
  /\ all_dfs = <<>>
  /\ session = NoSession
  /\ upload_history = <<>>
  /\ history_data = <<>>

CleanOnce ==
  /\ pc = "value"
  /\ once' = clean_currency(value)
  /\ pc' = "cleaned"
  /\ UNCHANGED <<value, twice, file, role_map, df, fit, forecast, appvars>>

CleanAgain ==
  /\ pc = "cleaned"
  /\ twice' = clean_currency(once)
  /\ pc' = "recleaned"
  /\ UNCHANGED <<value, once, file, role_map, df, fit, forecast, appvars>>

NextClean == CleanOnce \/ CleanAgain

SpecClean == InitClean /\ [][NextClean]_vars

\* ------------------------------------------------------------------ tables
ColIndex(t, name) == CHOOSE i \in 1..Len(t.columns) : t.columns[i] = name

HasCol(t, name) == \E i \in 1..Len(t.columns) : t.columns[i] = name

\* df[name]
Col(t, name) ==
  With(ColIndex(t, name), LAMBDA i : [r \in 1..Len(t.rows) |-> t.rows[r][i]])

\* df[name] = cells: replaces the column in place, or appends a new one
SetCol(t, name, cells) ==
  With(cells, LAMBDA new :
    IF HasCol(t, name)
    THEN With(ColIndex(t, name), LAMBDA i :
           [t EXCEPT !.rows = [r \in 1..Len(t.rows) |-> [t.rows[r] EXCEPT ![i] = new[r]]]])
    ELSE [columns |-> Append(t.columns, name),
          rows    |-> [r \in 1..Len(t.rows) |-> Append(t.rows[r], new[r])]])

\* dtype of a column is numeric when it holds numbers and missing cells only;
\* a column read from a file without data rows has dtype object
IsNumericDtype(cells) ==
  /\ Len(cells) > 0
  /\ \A r \in 1..Len(cells) : cells[r].k \in {"num", "nan"}

Digits == <<"0", "1", "2", "3", "4", "5", "6", "7", "8", "9">>

IsDigit(c) == \E i \in 1..10 : Digits[i] = c

DigitVal(c) == (CHOOSE i \in 1..10 : Digits[i] = c) - 1

RECURSIVE DigitsVal(_)
DigitsVal(t) ==
  IF t = <<>> THEN 0
  ELSE 10 * DigitsVal(SubSeq(t, 1, Len(t) - 1)) + DigitVal(t[Len(t)])

IsDigits(t) == t # <<>> /\ \A i \in 1..Len(t) : IsDigit(t[i])

\* pd.to_numeric(..., errors="coerce") on one cell: a decimal integer with an
\* optional sign and surrounding blanks parses, anything else is NaN
ToNumericCell(c) ==
  IF c.k = "num" THEN c
  ELSE IF c.k = "str"
  THEN LET t == Strip(c.s)
       IN  IF IsDigits(t) THEN Num(DigitsVal(t))
           ELSE IF Len(t) > 1 /\ t[1] = "-" /\ IsDigits(Tail(t)) THEN Num(0 - DigitsVal(Tail(t)))
           ELSE IF Len(t) > 1 /\ t[1] = "+" /\ IsDigits(Tail(t)) THEN Num(DigitsVal(Tail(t)))
           ELSE NaN
  ELSE NaN

to_numeric(cells) == With(cells, LAMBDA cs : [r \in 1..Len(cs) |-> ToNumericCell(cs[r])])

fillna0_Skipped(cells) == cells

\* Series.fillna(0)
fillna0(cells) ==
  With(cells, LAMBDA cs : [r \in 1..Len(cs) |-> IF cs[r].k = "nan" THEN Num(0) ELSE cs[r]])

MulCell_Sum(a, b) == IF a.k = "nan" \/ b.k = "nan" THEN NaN ELSE Num(a.v + b.v)

\* element-wise product of two numeric series; NaN propagates
MulCell(a, b) == IF a.k = "nan" \/ b.k = "nan" THEN NaN ELSE Num(a.v * b.v)

Mul(xs, ys) ==
  With(<<xs, ys>>, LAMBDA p : [r \in 1..Len(p[1]) |-> MulCell(p[1][r], p[2][r])])

\* df.select_dtypes(include=[np.number]): indices of the numeric columns
NumericCols(t) ==
  {i \in 1..Len(t.columns) : IsNumericDtype([r \in 1..Len(t.rows) |-> t.rows[r][i]])}

RECURSIVE RowSumOver(_, _)
RowSumOver(row, idx) ==
  IF idx = {} THEN 0
  ELSE LET i == CHOOSE j \in idx : TRUE
       IN  (IF row[i].k = "num" THEN row[i].v ELSE 0) + RowSumOver(row, idx \ {i})

SumAxis1_FirstColumn(t, idx) ==
  With(idx, LAMBDA cols :
    [r \in 1..Len(t.rows) |->
       Num(RowSumOver(t.rows[r], {CHOOSE i \in cols : \A j \in cols : i <= j}))])

\* numeric_cols.sum(axis=1): per row, the sum over the numeric columns,
\* missing cells skipped
SumAxis1(t, idx) ==
  With(idx, LAMBDA cols : [r \in 1..Len(t.rows) |-> Num(RowSumOver(t.rows[r], cols))])

\* app.py lines 131-133
CleanNumeric(t) ==
  With(NumericCols(t), LAMBDA numeric :
    [t EXCEPT !.rows =
       [r \in 1..Len(t.rows) |->
          [i \in 1..Len(t.columns) |->
             IF i \in numeric THEN t.rows[r][i] ELSE clean_currency(t.rows[r][i])]]])

\* app.py lines 150-159
ResolveAmount(t, roles) ==
  IF roles["amount"] # NoCol
  THEN fillna0(to_numeric(Col(t, roles["amount"])))
  ELSE IF roles["quantity"] # NoCol /\ roles["rate"] # NoCol
  THEN fillna0(Mul(to_numeric(Col(t, roles["quantity"])), to_numeric(Col(t, roles["rate"]))))
  ELSE IF NumericCols(t) # {} /\ Len(t.rows) > 0
  THEN SumAxis1(t, NumericCols(t))
  ELSE [r \in 1..Len(t.rows) |-> Num(0)]

\* app.py lines 161-163
ResolveProduct(t, roles) ==
  IF roles["product"] = NoCol
  THEN SetCol(t, s_product, [r \in 1..Len(t.rows) |-> Str(s_Unknown_Item)])
  ELSE t

\* the table returned by process_file_stream
process_file_stream(t) ==
  With([t EXCEPT !.columns = LowerAll(t.columns)], LAMBDA lowered :
    With(CleanNumeric(lowered), LAMBDA cleaned :
      With(DetectColumns(cleaned.columns), LAMBDA roles :
        With(SetCol(cleaned, s_amount, ResolveAmount(cleaned, roles)), LAMBDA withamt :
          ResolveProduct(withamt, roles)))))

\* ------------------------------------------------------------------ forecaster
\* next((c for c in df.columns if any(k in c.lower() for k in keywords)), None)
RECURSIVE next_col(_, _)
next_col(cols, keywords) ==
  IF cols = <<>> THEN NoCol
  ELSE IF With(Lower(Head(cols)), LAMBDA c : \E k \in keywords : Contains(c, k))
       THEN Head(cols)
  ELSE next_col(Tail(cols), keywords)

DateKeywords == {s_date, s_time, s_day}

\* pd.to_datetime(..., errors='coerce') on one cell, as a sort key: a
\* four-digit year string is the first day of that year, a number is that
\* many nanoseconds after 1970-01-01; a missing cell or any other string of
\* the modelled cells is NaT (key 0)
IsDate(c) == c.k = "num" \/ (c.k = "str" /\ Len(c.s) = 4 /\ IsDigits(c.s))

DateKey(c) ==
  IF c.k = "num" THEN <<1970, c.v>>
  ELSE IF IsDate(c) THEN <<DigitsVal(c.s), 0>>
  ELSE <<0, 0>>

DateLeq(a, b) == a[1] < b[1] \/ (a[1] = b[1] /\ a[2] <= b[2])

RECURSIVE Perms(_)
Perms(S) ==
  IF S = {} THEN {<<>>}
  ELSE UNION {{<<x>> \o p : p \in Perms(S \ {x})} : x \in S}

\* dropna(subset=[date_col]).sort_values(date_col): the rows whose date
\* parsed, ascending by date.  sort_values uses an unstable sort, so rows of
\* equal date come in any order.
SortedByDate(t, date_col) ==
  With(Col(t, date_col), LAMBDA dates :
    {o \in Perms({r \in 1..Len(t.rows) : IsDate(dates[r])}) :
       \A i \in 1..(Len(o) - 1) : DateLeq(DateKey(dates[o[i]]), DateKey(dates[o[i + 1]]))})

\* the row orders forecast_sales may use as its time axis
TimeAxes(t) ==
  With(next_col(t.columns, DateKeywords), LAMBDA date_col :
    IF date_col # NoCol THEN SortedByDate(t, date_col)
    ELSE {[i \in 1..Len(t.rows) |-> i]})

\* sums over x = 0, 1, ..., n-1 paired with y[1..n]
RECURSIVE SumX(_)
SumX(n) == IF n = 0 THEN 0 ELSE SumX(n - 1) + (n - 1)

RECURSIVE SumXX(_)
SumXX(n) == IF n = 0 THEN 0 ELSE SumXX(n - 1) + (n - 1) * (n - 1)

RECURSIVE SumY(_, _)
SumY(y, n) == IF n = 0 THEN 0 ELSE SumY(y, n - 1) + y[n]

RECURSIVE SumXY(_, _)
SumXY(y, n) == IF n = 0 THEN 0 ELSE SumXY(y, n - 1) + (n - 1) * y[n]

\* np.polyfit(x, y, 1) in exact arithmetic: slope and intercept as numerators
\* over the common denominator n * (n*Sxx - Sx^2)
polyfit(y) ==
  With([n |-> Len(y), sx |-> SumX(Len(y)), sxx |-> SumXX(Len(y)),
        sy |-> SumY(y, Len(y)), sxy |-> SumXY(y, Len(y))], LAMBDA s :
    With([d |-> s.n * s.sxx - s.sx * s.sx, sl |-> s.n * s.sxy - s.sx * s.sy], LAMBDA f :
      [slope |-> f.sl * s.n, intercept |-> s.sy * f.d - f.sl * s.sx, den |-> s.n * f.d]))

Max0_NoFloor(r) == r

\* max(0.0, prediction)
Max0(r) == IF r.num < 0 THEN Rat(0, 1) ELSE r

\* the locals of forecast_sales for the time axis `order` (the index of the
\* sorted copy `data`): y, and slope and intercept once fitted
Fit(t, order) ==
  IF ~HasCol(t, s_amount) THEN NoFit
  ELSE With(fillna0(to_numeric(Col(t, s_amount))), LAMBDA amounts :
         With([i \in 1..Len(order) |-> amounts[order[i]].v], LAMBDA y :
           IF Len(y) < 2 THEN [NoFit EXCEPT !.order = order, !.y = y]
           ELSE With(polyfit(y), LAMBDA line :
                  [order |-> order, y |-> y, slope |-> line.slope,
                   intercept |-> line.intercept, den |-> line.den])))

forecast_sales_LastIndex(f) ==
  IF f.den = 0 THEN Rat(0, 1)
  ELSE Max0(Rat(f.slope * (Len(f.y) - 1) + f.intercept, f.den))

\* the value forecast_sales returns for those locals
forecast_sales(f) ==
  IF f.den = 0 THEN Rat(0, 1)
  ELSE Max0(Rat(f.slope * Len(f.y) + f.intercept, f.den))

ForecastSales ==
  /\ pc = "table"
  /\ \E order \in (IF HasCol(df, s_amount) THEN TimeAxes(df) ELSE {<<>>}) :
       \E f \in {Fit(df, order)} :
         /\ fit' = f
         /\ forecast' = forecast_sales(f)
  /\ pc' = "forecast"
  /\ UNCHANGED <<value, once, twice, file, role_map, df, appvars>>

NextForecast == ForecastSales

AmountCells == {Num(10), Num(20), Num(30), Num(40), Str(<<"a">>)}

DateCells == {Str(<<"2", "0", "2", "0">>), Str(<<"2", "0", "2", "1">>), NaN}

DatedAmountCells == {Num(10), Num(30), Str(<<"a">>)}

\* tables for the forecaster: an amount column or not, a date-like column or not
ForecastShapes == {<<s_amount>>, <<c_Date, s_amount>>, <<c_Date>>, <<c_sales>>}

ForecastRows(cols) ==
  IF cols = <<s_amount>> THEN {<<a>> : a \in AmountCells}
  ELSE IF cols = <<c_Date, s_amount>> THEN {<<d, a>> : d \in DateCells, a \in DatedAmountCells}
  ELSE IF cols = <<c_Date>> THEN {<<d>> : d \in DateCells}
  ELSE {<<Num(10)>>}

ForecastLengths(cols) == IF cols = <<c_Date, s_amount>> THEN 0..MaxDated ELSE 0..MaxPoints

InitForecast ==
  /\ pc = "table"
  /\ \E cols \in ForecastShapes :
       \E n \in ForecastLengths(cols) :
         \E rs \in [1..n -> ForecastRows(cols)] : df = [columns |-> cols, rows |-> rs]
  /\ file = NoTable
  /\ role_map = NoRoles
  /\ fit = NoFit
  /\ forecast = NoForecast
  /\ data = NoData
  /\ all_dfs = <<>>
  /\ session = NoSession
  /\ upload_history = <<>>
  /\ history_data = <<>>
  /\ value = None
  /\ once = None
  /\ twice = None

SpecForecast == InitForecast /\ [][NextForecast]_vars

\* ------------------------------------------------------------------ forecaster properties
\* C6: forecast_sales returns a number, and the number is >= 0, for every
\* table: with or without amount and date columns, any row count, any
\* unparseable amounts or dates, any declining trend.
C6_NonNegative ==
  pc = "forecast" => forecast.den > 0 /\ forecast.num >= 0

\* a declining trend whose line is below zero at the next index
C6_Witness ==
  /\ pc = "forecast"
  /\ df.columns = <<s_amount>>
  /\ df.rows = << <<Num(40)>>, <<Num(20)>>, <<Str(<<"a">>)>> >>
  /\ fit.slope * 3 + fit.intercept < 0
  /\ forecast.num = 0

\* the amounts of the rows `order`, unparseable as 0
AmountsAt(order) ==
  [i \in 1..Len(order) |-> Val0(ToNumericCell(Col(df, s_amount)[order[i]]))]

HasDateColumn == \E i \in 1..Len(df.columns) : \E k \in DateKeywords : Contains(Lower(df.columns[i]), k)

DateColumn == CHOOSE i \in 1..Len(df.columns) :
                /\ \E k \in DateKeywords : Contains(Lower(df.columns[i]), k)
                /\ \A j \in 1..(i - 1) : ~\E k \in DateKeywords : Contains(Lower(df.columns[j]), k)

\* y is the amount series on the time axis o: the rows whose date parses,
\* each once, ascending by date, when there is a date-like column; all rows in
\* row order otherwise
OnTimeAxis(o, y) ==
  /\ y = AmountsAt(o)
  /\ IF HasDateColumn
     THEN /\ \A i \in 1..Len(o) : o[i] \in 1..Len(df.rows) /\ IsDate(df.rows[o[i]][DateColumn])
          /\ \A r \in 1..Len(df.rows) :
               IsDate(df.rows[r][DateColumn]) => \E i \in 1..Len(o) : o[i] = r
          /\ \A i, j \in 1..Len(o) : o[i] = o[j] => i = j
          /\ \A i \in 1..(Len(o) - 1) :
               DateLeq(DateKey(df.rows[o[i]][DateColumn]), DateKey(df.rows[o[i + 1]][DateColumn]))
     ELSE o = [i \in 1..Len(df.rows) |-> i]

RECURSIVE Residuals(_, _, _)
Residuals(f, n, weighted) ==
  IF n = 0 THEN 0
  ELSE Residuals(f, n - 1, weighted)
       + (IF weighted THEN n - 1 ELSE 1) * (f.den * f.y[n] - f.slope * (n - 1) - f.intercept)

\* the line slope*x + intercept is the least-squares line through (x, y):
\* its residuals sum to zero and are orthogonal to x
LeastSquares(f) ==
  /\ f.den > 0
  /\ Residuals(f, Len(f.y), FALSE) = 0
  /\ Residuals(f, Len(f.y), TRUE) = 0

IsProgression(y) == \A i \in 2..(Len(y) - 1) : y[i + 1] - y[i] = y[2] - y[1]

\* C7: with y the amounts on the time axis and n their number, the forecast is
\* 0 when n < 2 and otherwise max(0, slope*n + intercept) of the least-squares
\* line through (0..n-1, y); for a progression a, a+d, ... without a date
\* column that is max(0, a + n*d).
C7_ForecastValue ==
  (pc = "forecast" /\ HasCol(df, s_amount)) =>
    LET n == Len(fit.y)
        p == fit.slope * n + fit.intercept
    IN  /\ OnTimeAxis(fit.order, fit.y)
        /\ n < 2 => forecast.num = 0 /\ forecast.den > 0
        /\ n >= 2 =>
             /\ LeastSquares(fit)
             /\ forecast.den > 0
             /\ IF p < 0 THEN forecast.num = 0
                ELSE forecast.num * fit.den = p * forecast.den
        /\ (n >= 2 /\ ~HasDateColumn /\ IsProgression(fit.y)) =>
             LET next == fit.y[1] + n * (fit.y[2] - fit.y[1])
             IN  IF next < 0 THEN forecast.num = 0
                 ELSE forecast.num = next * forecast.den

\* amounts 10, 20, 30, 40 without a date column forecast 50
C7_Witness ==
  /\ pc = "forecast"
  /\ df.columns = <<s_amount>>
  /\ df.rows = << <<Num(10)>>, <<Num(20)>>, <<Num(30)>>, <<Num(40)>> >>
  /\ forecast.num = 50 * forecast.den

\* ------------------------------------------------------------------ metrics engine
ProductKeywords == {s_product, s_item, s_description}

RECURSIVE SumCells(_, _)
SumCells(cells, n) == IF n = 0 THEN 0 ELSE SumCells(cells, n - 1) + Val0(cells[n])

\* Series.sum()
sum(cells) == With(cells, LAMBDA cs : SumCells(cs, Len(cs)))

\* Series.nunique(): the number of distinct values, missing cells not counted
nunique(cells) ==
  With(cells, LAMBDA cs : Cardinality({cs[r] : r \in {q \in 1..Len(cs) : cs[q].k # "nan"}}))

\* pd.api.types.is_numeric_dtype(df['amount']) for the amount column the
\* pipeline wrote with to_numeric: numeric whatever the number of rows
AmountIsNumeric(t) ==
  With(Col(t, s_amount), LAMBDA amounts :
    \A r \in 1..Len(amounts) : amounts[r].k \in {"num", "nan"})

\* generate_insights raises when the top product is asked of an empty
\* grouping (idxmax of an empty series): a product column is found, the
\* amount column is numeric, and no row has a product value
InsightsRaise(t) ==
  With(next_col(t.columns, ProductKeywords), LAMBDA prod_col :
    /\ prod_col # NoCol
    /\ HasCol(t, s_amount)
    /\ AmountIsNumeric(t)
    /\ With(Col(t, prod_col), LAMBDA products :
         \A r \in 1..Len(products) : products[r].k = "nan"))

\* round(total_revenue / total_orders, 2) in hundredths, halves to the even
\* neighbour; 0 when there are no orders
avg_order_value(total_revenue, total_orders) ==
  IF total_orders = 0 THEN 0
  ELSE With([lo  |-> (100 * total_revenue) \div total_orders,
             rem |-> (100 * total_revenue) % total_orders], LAMBDA q :
         IF 2 * q.rem < total_orders THEN q.lo
         ELSE IF 2 * q.rem > total_orders THEN q.lo + 1
         ELSE IF q.lo % 2 = 0 THEN q.lo ELSE q.lo + 1)

\* df.groupby(prod_col)['amount'].sum(): one entry per product value, rows of
\* a missing product left out
GroupSums(t, prod_col) ==
  With(<<Col(t, prod_col), Col(t, s_amount)>>, LAMBDA c :
    [p \in {c[1][r] : r \in {q \in 1..Len(t.rows) : c[1][q].k # "nan"}} |->
       SumCells([r \in 1..Len(t.rows) |-> IF c[1][r] = p THEN c[2][r] ELSE NaN],
                Len(t.rows))])

Rankings_Ascending(t) ==
  With(next_col(t.columns, ProductKeywords), LAMBDA prod_col :
    IF prod_col = NoCol \/ ~HasCol(t, s_amount) THEN {<<>>}
    ELSE With(GroupSums(t, prod_col), LAMBDA sums :
           {[i \in 1..Len(o) |-> [product |-> o[i], total |-> sums[o[i]]]] :
              o \in {l \in Perms(DOMAIN sums) :
                       \A i \in 1..(Len(l) - 1) : sums[l[i]] <= sums[l[i + 1]]}}))

\* the values sales_by_product may take: the grouped sums after
\* sort_values(ascending=False).to_dict(), as (product, total) pairs in dict
\* order.  sort_values uses an unstable sort, so products of equal total come
\* in any order.
Rankings(t) ==
  With(next_col(t.columns, ProductKeywords), LAMBDA prod_col :
    IF prod_col = NoCol \/ ~HasCol(t, s_amount) THEN {<<>>}
    ELSE With(GroupSums(t, prod_col), LAMBDA sums :
           {[i \in 1..Len(o) |-> [product |-> o[i], total |-> sums[o[i]]]] :
              o \in {l \in Perms(DOMAIN sums) :
                       \A i \in 1..(Len(l) - 1) : sums[l[i]] >= sums[l[i + 1]]}}))

sales_trend_RowOrder(t, order) ==
  IF HasCol(t, s_amount) THEN Col(t, s_amount) ELSE <<>>

\* sales_trend: the amounts along the date-sorted rows whose date parsed, or
\* along all rows when there is no date column (`order` is that row order)
sales_trend(t, order) ==
  IF HasCol(t, s_amount)
  THEN With(Col(t, s_amount), LAMBDA amounts : [i \in 1..Len(order) |-> amounts[order[i]]])
  ELSE <<>>

\* the sentences of generate_insights, by template and the values filled in
RevenueInsight(revenue) ==
  [kind |-> "revenue", product |-> None, count |-> 0, num |-> revenue, den |-> 1]

\* the top performer with its share top_val / revenue, or without a share
\* when revenue is not positive
TopInsight(top_prod, top_val, revenue) ==
  IF revenue > 0
  THEN [kind |-> "top_share", product |-> top_prod, count |-> 0, num |-> top_val, den |-> revenue]
  ELSE [kind |-> "top", product |-> top_prod, count |-> 0, num |-> 0, den |-> 1]

\* high_count transactions above twice the average total / n
HighInsight(high_count, total, n) ==
  [kind |-> "high", product |-> None, count |-> high_count, num |-> total, den |-> n]

\* insight 3: df['amount'].mean() skips missing cells and is NaN (not > 0) of
\* none; amount > 2 * mean is compared as amount * n > 2 * total
HighValue(t) ==
  IF ~(HasCol(t, s_amount) /\ AmountIsNumeric(t)) THEN <<>>
  ELSE With(Col(t, s_amount), LAMBDA amounts :
         With([n     |-> Cardinality({r \in 1..Len(amounts) : amounts[r].k = "num"}),
               total |-> SumCells(amounts, Len(amounts))], LAMBDA avg_txn :
           With(Cardinality({r \in 1..Len(amounts) :
                               /\ amounts[r].k = "num"
                               /\ amounts[r].v * avg_txn.n > 2 * avg_txn.total}),
                LAMBDA high_count :
             IF avg_txn.n > 0 /\ avg_txn.total > 0 /\ high_count > 0
             THEN <<HighInsight(high_count, avg_txn.total, avg_txn.n)>>
             ELSE <<>>)))

\* generate_insights(df, revenue): whether it raised, and the insights list
\* as it stood when the function was left.  top_prod and top_val are the
\* first entry of the descending grouped sums (`ranking`).
generate_insights(t, revenue, ranking) ==
  IF InsightsRaise(t)
  THEN [raised |-> TRUE, insights |-> <<RevenueInsight(revenue)>>]
  ELSE [raised   |-> FALSE,
        insights |-> <<RevenueInsight(revenue)>>
                     \o (IF ranking # <<>> /\ AmountIsNumeric(t)
                         THEN <<TopInsight(ranking[1].product, ranking[1].total, revenue)>>
                         ELSE <<>>)
                     \o HighValue(t)]

\* generate_dashboard_data, with `order` the row order of the date sort and
\* `ranking` the order of the sales_by_product sort.  When generate_insights
\* raises (status "raised") no record is returned: the fields hold what had
\* been computed when the exception left the function.
generate_dashboard_data(t, order, ranking) ==
  With([prod_col      |-> next_col(t.columns, ProductKeywords),
        total_revenue |-> IF HasCol(t, s_amount) THEN sum(Col(t, s_amount)) ELSE 0],
       LAMBDA l :
    With(generate_insights(t, l.total_revenue, ranking), LAMBDA g :
      [status           |-> IF g.raised THEN "raised" ELSE "returned",
       total_revenue    |-> l.total_revenue,
       total_orders     |-> Len(t.rows),
       avg_order_value  |-> avg_order_value(l.total_revenue, Len(t.rows)),
       unique_products  |-> IF l.prod_col # NoCol THEN nunique(Col(t, l.prod_col)) ELSE 0,
       sales_by_product |-> ranking,
       sales_trend      |-> sales_trend(t, order),
       next_sales_prediction |-> With(Fit(t, order), LAMBDA f : forecast_sales(f)),
       insights         |-> g.insights]))

\* ------------------------------------------------------------------ table merger
RECURSIVE UnionColumns(_, _)
UnionColumns(cols, more) ==
  IF more = <<>> THEN cols
  ELSE UnionColumns(IF \E i \in 1..Len(cols) : cols[i] = Head(more) THEN cols
                    ELSE Append(cols, Head(more)), Tail(more))

RECURSIVE AllColumns(_)
AllColumns(dfs) ==
  IF dfs = <<>> THEN <<>>
  ELSE UnionColumns(AllColumns(SubSeq(dfs, 1, Len(dfs) - 1)), dfs[Len(dfs)].columns)

Reindex_ZeroFill(t, cols) ==
  With(t, LAMBDA src :
    [r \in 1..Len(src.rows) |->
       [i \in 1..Len(cols) |->
          IF HasCol(src, cols[i]) THEN src.rows[r][ColIndex(src, cols[i])] ELSE Num(0)]])

\* the rows of t laid out on the columns cols; a column t lacks is NaN
Reindex(t, cols) ==
  With(t, LAMBDA src :
    [r \in 1..Len(src.rows) |->
       [i \in 1..Len(cols) |->
          IF HasCol(src, cols[i]) THEN src.rows[r][ColIndex(src, cols[i])] ELSE NaN]])

RECURSIVE ConcatRows_LastFirst(_, _)
ConcatRows_LastFirst(dfs, cols) ==
  IF dfs = <<>> THEN <<>>
  ELSE ConcatRows_LastFirst(Tail(dfs), cols) \o Reindex(Head(dfs), cols)

RECURSIVE ConcatRows(_, _)
ConcatRows(dfs, cols) ==
  IF dfs = <<>> THEN <<>>
  ELSE Reindex(Head(dfs), cols) \o ConcatRows(Tail(dfs), cols)

\* pd.concat(dfs, ignore_index=True)
concat(dfs) ==
  With(dfs, LAMBDA tables :
    With(AllColumns(tables), LAMBDA cols : [columns |-> cols, rows |-> ConcatRows(tables, cols)]))

\* ------------------------------------------------------------------ uploads
ProcessFileStream ==
  /\ pc = "read"
  /\ df' = process_file_stream(file)
  /\ role_map' = DetectColumns(LowerAll(file.columns))
  /\ pc' = "processed"
  /\ UNCHANGED <<value, once, twice, file, fit, forecast, appvars>>

GenerateDashboardData ==
  /\ pc \in {"processed", "normalized"}
  /\ \E order \in TimeAxes(df) :
       \E ranking \in Rankings(df) : data' = generate_dashboard_data(df, order, ranking)
  /\ pc' = "dashboard"
  /\ UNCHANGED <<value, once, twice, file, role_map, df, fit, forecast, all_dfs,
                 session, upload_history, history_data>>

NextProcess == ProcessFileStream \/ GenerateDashboardData

CellValues == {Num(1), NaN, Str(<<"Rs", "2", "/", "-">>), Str(<<"a">>)}

FileHeaders == {c_Item, c_particulars, c_QTY, c_Rate, c_Net_Total, c_sales}

RECURSIVE SeqsUpTo(_, _)
SeqsUpTo(S, n) ==
  IF n = 0 THEN {<<>>}
  ELSE LET shorter == SeqsUpTo(S, n - 1)
       IN  shorter \cup {Append(l, h) : l \in {u \in shorter : Len(u) = n - 1}, h \in S}

\* read_csv / read_excel never deliver two columns of the same name
Distinct(l) == \A i, j \in 1..Len(l) : l[i] = l[j] => i = j

InitProcess ==
  /\ pc = "read"
  /\ \E l \in {h \in SeqsUpTo(FileHeaders, MaxCols) : h # <<>> /\ Distinct(LowerAll(h))} :
       \E n \in {m \in 0..MaxRows : m * Len(l) <= MaxCells} :
         \E rs \in [1..n -> [1..Len(l) -> CellValues]] : file = [columns |-> l, rows |-> rs]
  /\ role_map = NoRoles
  /\ df = NoTable
  /\ fit = NoFit
  /\ forecast = NoForecast
  /\ data = NoData
  /\ all_dfs = <<>>
  /\ session = NoSession
  /\ upload_history = <<>>
  /\ history_data = <<>>
  /\ value = None
  /\ once = None
  /\ twice = None

SpecProcess == InitProcess /\ [][NextProcess]_vars

\* ------------------------------------------------------------------ metrics engine runs
\* normalized tables as process_file_stream and the merger deliver them: an
\* amount column of numbers, and a product column, a date column or neither
\* that the engine's keywords find
ProductCells == {Str(<<"a">>), Str(<<"b">>), NaN}

OrderAmounts == {Num(1), Num(100)}

PlainAmounts == {Num(0), Num(1), Num(100)}

MetricShapes ==
  {<<s_item, s_amount>>, <<s_date, s_amount, s_product>>, <<s_item, s_date, s_amount>>,
   <<c_particulars, s_amount>>}

MetricRows(cols) ==
  IF cols = <<s_item, s_amount>> THEN {<<p, a>> : p \in ProductCells, a \in OrderAmounts}
  ELSE IF cols = <<s_date, s_amount, s_product>>
  THEN {<<d, a, Str(s_Unknown_Item)>> : d \in DateCells, a \in OrderAmounts}
  ELSE IF cols = <<s_item, s_date, s_amount>>
  THEN {<<p, d, a>> : p \in ProductCells, d \in DateCells, a \in OrderAmounts}
  ELSE {<<Str(<<"a">>), a>> : a \in PlainAmounts}

MetricLengths(cols) ==
  IF cols = <<s_date, s_amount, s_product>> THEN 0..MaxDated
  ELSE IF cols = <<s_item, s_date, s_amount>> THEN 0..MaxRows
  ELSE 0..MaxOrders

InitMetrics ==
  /\ pc = "normalized"
  /\ \E cols \in MetricShapes :
       \E n \in MetricLengths(cols) :
         \E rs \in [1..n -> MetricRows(cols)] : df = [columns |-> cols, rows |-> rs]
  /\ file = NoTable
  /\ role_map = NoRoles
  /\ fit = NoFit
  /\ forecast = NoForecast
  /\ data = NoData
  /\ all_dfs = <<>>
  /\ session = NoSession
  /\ upload_history = <<>>
  /\ history_data = <<>>
  /\ value = None
  /\ once = None
  /\ twice = None

NextMetrics == GenerateDashboardData

SpecMetrics == InitMetrics /\ [][NextMetrics]_vars

\* ------------------------------------------------------------------ routes
UploadHeaders == {c_Item, c_sales}

\* an uploaded file: one column, its r-th data row holding the number r
UploadFiles ==
  {[columns |-> <<h>>, rows |-> [r \in 1..n |-> <<Num(r)>>]] :
     h \in UploadHeaders, n \in 0..MaxFileRows}

\* process_file_stream on each file of the upload universe
ProcessedUpload == [f \in UploadFiles |-> process_file_stream(f)]

\* request.form.getlist("selected_history"): each ticked id once
Selections ==
  {ids \in UNION {[1..n -> 1..MaxHistory] : n \in 1..MaxSelected} :
     \A i, j \in 1..Len(ids) : ids[i] = ids[j] => i = j}

\* session.get('user_id', 1)
CurrentUserId == IF session.user_id = 0 THEN 1 ELSE session.user_id

InitApp ==
  /\ pc = "idle"
  /\ session = NoSession
  /\ upload_history = <<>>
  /\ history_data = <<>>
  /\ all_dfs = <<>>
  /\ df = NoTable
  /\ data = NoData
  /\ file = NoTable
  /\ role_map = NoRoles
  /\ fit = NoFit
  /\ forecast = NoForecast
  /\ value = None
  /\ once = None
  /\ twice = None

\* the response of a route that merged all_dfs: the dashboard, or the error
\* page when generate_dashboard_data raised
Respond(dfs) ==
  \E merged_df \in {concat(dfs)} :
    /\ all_dfs' = dfs
    /\ df' = merged_df
    /\ \E order \in TimeAxes(merged_df) :
         \E ranking \in Rankings(merged_df) :
           \E result \in {generate_dashboard_data(merged_df, order, ranking)} :
             /\ data' = result
             /\ pc' = IF result.status = "raised" THEN "error" ELSE "dashboard"

\* POST /dashboard with the uploaded files.  Each stored row also notes who
\* uploaded it (the e-mail of the session, "" without a login), which the
\* INSERT does not store.
DashboardPost(files) ==
  /\ files # <<>>
  /\ Len(upload_history) + Len(files) <= MaxHistory
  /\ upload_history' = upload_history \o
        [i \in 1..Len(files) |->
           [id |-> Len(upload_history) + i, user_id |-> CurrentUserId,
            user |-> session.user, file_data |-> files[i]]]
  /\ history_data' = <<>>
  /\ Respond([i \in 1..Len(files) |-> ProcessedUpload[files[i]]])
  /\ UNCHANGED <<value, once, twice, file, role_map, fit, forecast, session>>

\* the selected ids for which merge_history finds a row of the current user
Found(selected_ids) ==
  SelectSeq(selected_ids, LAMBDA sid :
    \E i \in 1..Len(upload_history) :
      upload_history[i].id = sid /\ upload_history[i].user_id = CurrentUserId)

\* the stored files merge_history reads for the selected ids
Selected(selected_ids) ==
  LET found(sid) == {i \in 1..Len(upload_history) :
                       upload_history[i].id = sid /\ upload_history[i].user_id = CurrentUserId}
      hit == SelectSeq(selected_ids, LAMBDA sid : found(sid) # {})
  IN  [i \in 1..Len(hit) |-> upload_history[CHOOSE j \in found(hit[i]) : TRUE].file_data]

\* POST /history/merge with the ticked history ids
MergeHistory(selected_ids) ==
  /\ selected_ids # <<>>
  /\ LET files == Selected(selected_ids)
     IN  IF files = <<>>
         THEN /\ pc' = "error"
              /\ all_dfs' = <<>>
              /\ UNCHANGED <<df, data>>
         ELSE Respond([i \in 1..Len(files) |-> ProcessedUpload[files[i]]])
  /\ history_data' = Found(selected_ids)
  /\ UNCHANGED <<value, once, twice, file, role_map, fit, forecast, session, upload_history>>

NextApp ==
  \/ \E n \in 1..(MaxHistory - Len(upload_history)) :
       \E files \in [1..n -> UploadFiles] : DashboardPost(files)
  \/ \E ids \in Selections : MergeHistory(ids)

SpecApp == InitApp /\ [][NextApp]_vars

\* ------------------------------------------------------------------ sessions and history
Emails == {"ann@example.com", "bob@example.com"}

\* GET /login/google once Google has authorized the user `email`
LoginGoogle(email) ==
  /\ session' = [user |-> email, user_id |-> 1]
  /\ pc' = "idle"
  /\ history_data' = <<>>
  /\ UNCHANGED <<value, once, twice, file, role_map, df, fit, forecast, data,
                 all_dfs, upload_history>>

\* ids of the rows SELECT ... WHERE user_id = ? ORDER BY upload_time DESC
\* returns, a later upload having the later time
HistoryRows(user_id) ==
  With(SelectSeq(upload_history, LAMBDA row : row.user_id = user_id), LAMBDA rows :
    [i \in 1..Len(rows) |-> rows[Len(rows) + 1 - i].id])

\* GET /history
History ==
  /\ history_data' = HistoryRows(CurrentUserId)
  /\ pc' = "history"
  /\ UNCHANGED <<value, once, twice, file, role_map, df, fit, forecast, data,
                 all_dfs, session, upload_history>>

\* GET /history/view/<history_id>
ViewHistoryItem(history_id) ==
  /\ \E item \in {SelectSeq(upload_history, LAMBDA row :
                     row.id = history_id /\ row.user_id = CurrentUserId)} :
       IF item = <<>>
       THEN /\ pc' = "notfound"
            /\ history_data' = <<>>
            /\ UNCHANGED <<df, data>>
       ELSE /\ history_data' = <<history_id>>
            /\ \E table \in {ProcessedUpload[item[1].file_data]} :
                 /\ df' = table
                 /\ \E order \in TimeAxes(table) :
                      \E ranking \in Rankings(table) :
                        \E result \in {generate_dashboard_data(table, order, ranking)} :
                          /\ data' = result
                          /\ pc' = IF result.status = "raised" THEN "error" ELSE "dashboard"
  /\ all_dfs' = <<>>
  /\ UNCHANGED <<value, once, twice, file, role_map, fit, forecast, session, upload_history>>

\* the file every upload of these runs sends
SessionFile == [columns |-> <<c_Item>>, rows |-> << <<Num(1)>> >>]

NextSession ==
  \/ \E email \in Emails : LoginGoogle(email)
  \/ DashboardPost(<<SessionFile>>)
  \/ History
  \/ \E history_id \in 1..MaxHistory : ViewHistoryItem(history_id)
  \/ \E ids \in Selections : MergeHistory(ids)

SpecSession == InitApp /\ [][NextSession]_vars

\* ------------------------------------------------------------------ column classifier runs
HeaderNames ==
  {c_Item, c_particulars, s_material, s_gross, c_QTY, c_Rate, c_Net_Total,
   c_Date, c_sales, s_amount}

HeaderLists(n) == SeqsUpTo(HeaderNames, n)

InitClassify ==
  /\ pc = "read"
  /\ \E l \in {h \in HeaderLists(MaxNames) : h # <<>> /\ Distinct(LowerAll(h))} :
       file = [columns |-> l, rows |-> <<>>]
  /\ role_map = NoRoles
  /\ df = NoTable
  /\ fit = NoFit
  /\ forecast = NoForecast
  /\ data = NoData
  /\ all_dfs = <<>>
  /\ session = NoSession
  /\ upload_history = <<>>
  /\ history_data = <<>>
  /\ value = None
  /\ once = None
  /\ twice = None

SpecClassify == InitClassify /\ [][NextProcess]_vars

\* the keyword sets as the specification lists them
SpecKeywords ==
  [product  |-> {s_product, s_item, s_description, s_particular, s_material},
   quantity |-> {s_qty, s_quantity, s_units, s_nos},
   rate     |-> {s_rate, s_price},
   amount   |-> {s_amount, s_total, s_value, s_net, s_bill_amount,
                 s_invoice_amount, s_gross, s_sales_value},
   date     |-> {s_date, s_time, s_day}]

Processed == pc \in {"processed", "dashboard"}

Hits(cols, keywords) ==
  {i \in 1..Len(cols) : \E k \in keywords : Contains(Lower(cols[i]), k)}

FirstMatch(cols, keywords, col) ==
  IF Hits(cols, keywords) = {} THEN col = NoCol
  ELSE \E i \in Hits(cols, keywords) :
         /\ \A j \in Hits(cols, keywords) : i <= j
         /\ col = Lower(cols[i])

\* C4 as stated: each role maps to the first column, in file order, whose
\* lower-cased name contains a keyword of the specification's set for the
\* role, and to None exactly when no column name contains one.
C4_SpecKeywords ==
  Processed =>
    \A r \in Roles : FirstMatch(file.columns, SpecKeywords[r], role_map[r])

\* C4 amended: the same with the keyword lists of process_file_stream
\* (product: product, item, description, particular; amount: amount, total,
\* value, net; quantity, rate and date as stated).
C4_FirstMatch ==
  Processed =>
    \A r \in Roles :
      LET kws == CASE r = "product"  -> {s_product, s_item, s_description, s_particular}
                   [] r = "quantity" -> {s_qty, s_quantity, s_units, s_nos}
                   [] r = "rate"     -> {s_rate, s_price}
                   [] r = "amount"   -> {s_amount, s_total, s_value, s_net}
                   [] r = "date"     -> {s_date, s_time, s_day}
      IN  FirstMatch(file.columns, kws, role_map[r])

\* a file whose second and third columns both match the amount role and whose
\* header needs lower-casing has been classified
C4_Witness ==
  /\ pc = "processed"
  /\ file.columns = <<c_sales, c_Net_Total, s_amount>>
  /\ role_map["amount"] = Lower(c_Net_Total)
  /\ role_map["product"] = NoCol

\* ------------------------------------------------------------------ amount resolver properties
\* the role a file's headers give, stated on the headers themselves
RoleMissing(role) == Hits(file.columns, Keywords[role]) = {}

RoleColumn(role) ==
  Lower(file.columns[CHOOSE i \in Hits(file.columns, Keywords[role]) :
                       \A j \in Hits(file.columns, Keywords[role]) : i <= j])

FileNumericCols ==
  {i \in 1..Len(file.columns) :
     /\ Len(file.rows) > 0
     /\ \A r \in 1..Len(file.rows) : file.rows[r][i].k \in {"num", "nan"}}

RECURSIVE ColumnSum(_, _)
ColumnSum(i, r) == IF r = 0 THEN 0 ELSE ColumnSum(i, r - 1) + Val0(file.rows[r][i])

RECURSIVE RowSumNumeric(_, _)
RowSumNumeric(r, i) ==
  IF i = 0 THEN 0
  ELSE RowSumNumeric(r, i - 1) + (IF i \in FileNumericCols THEN Val0(file.rows[r][i]) ELSE 0)

Fallback3 ==
  /\ Processed
  /\ RoleMissing("amount")
  /\ RoleMissing("quantity") \/ RoleMissing("rate")
  /\ FileNumericCols # {}

\* C1 as stated: in fallback 3 the amount column is a copy of the numeric
\* column whose column sum is largest.
C1_LargestColumn ==
  Fallback3 =>
    \E i \in FileNumericCols :
      /\ \A j \in FileNumericCols : ColumnSum(j, Len(file.rows)) <= ColumnSum(i, Len(file.rows))
      /\ \A r \in 1..Len(file.rows) : Col(df, s_amount)[r] = Num(Val0(file.rows[r][i]))

\* C1 amended: in fallback 3 each row's amount is the sum of that row's cells
\* over all numeric-typed columns, a missing cell counting as 0.
C1_RowSum ==
  Fallback3 =>
    /\ HasCol(df, s_amount)
    /\ \A r \in 1..Len(file.rows) :
         Col(df, s_amount)[r] = Num(RowSumNumeric(r, Len(file.columns)))

\* two numeric columns and no amount, rate role: the amounts are the row sums
C1_Witness ==
  /\ Fallback3
  /\ file.columns = <<c_QTY, c_sales>>
  /\ file.rows = << <<Num(1), Num(1)>>, <<NaN, Num(1)>> >>
  /\ Col(df, s_amount) = <<Num(2), Num(1)>>

NumOr0(c) == Val0(ToNumericCell(clean_currency(c)))

Fallback2 ==
  /\ Processed
  /\ RoleMissing("amount")
  /\ ~RoleMissing("quantity")
  /\ ~RoleMissing("rate")

\* C3: with no amount column but a quantity and a rate column, each row's
\* amount is num(quantity) * num(rate), num being 0 for a missing or
\* unparseable cell.
C3_QtyTimesRate ==
  Fallback2 =>
    /\ HasCol(df, s_amount)
    /\ \A r \in 1..Len(file.rows) :
         LET q == file.rows[r][ColIndex([file EXCEPT !.columns = LowerAll(@)], RoleColumn("quantity"))]
             p == file.rows[r][ColIndex([file EXCEPT !.columns = LowerAll(@)], RoleColumn("rate"))]
         IN  Col(df, s_amount)[r] = Num(NumOr0(q) * NumOr0(p))

\* quantities 2 (written with currency noise) and unparseable, rates 2 and 1
C3_Witness ==
  /\ Fallback2
  /\ file.columns = <<c_QTY, c_Rate>>
  /\ file.rows = << <<Str(<<"Rs", "2", "/", "-">>), Str(<<"Rs", "2", "/", "-">>)>>, <<Str(<<"a">>), Num(1)>> >>
  /\ Col(df, s_amount) = <<Num(4), Num(0)>>

\* ------------------------------------------------------------------ table merger properties
RECURSIVE RowsBefore(_)
RowsBefore(i) == IF i <= 1 THEN 0 ELSE RowsBefore(i - 1) + Len(all_dfs[i - 1].rows)

MergedColumn(name) == CHOOSE c \in 1..Len(df.columns) : df.columns[c] = name

\* C8: the merged table has as many rows as the processed tables together,
\* and its rows are those of table 1 in order, then those of table 2 in
\* order, and so on, every cell of a source row (its amount included) unchanged.
C8_Concatenation ==
  all_dfs # <<>> =>
    /\ Len(df.rows) = RowsBefore(Len(all_dfs) + 1)
    /\ \A i \in 1..Len(all_dfs) :
         \A j \in 1..Len(all_dfs[i].rows) :
           \A c \in 1..Len(all_dfs[i].columns) :
             /\ \E m \in 1..Len(df.columns) : df.columns[m] = all_dfs[i].columns[c]
             /\ df.rows[RowsBefore(i) + j][MergedColumn(all_dfs[i].columns[c])]
                  = all_dfs[i].rows[j][c]

\* a two-row and a one-row upload of different headers merged into three rows
C8_Witness ==
  /\ pc = "dashboard"
  /\ Len(all_dfs) = 2
  /\ all_dfs[1].columns = <<s_item, s_amount>>
  /\ all_dfs[2].columns = <<c_sales, s_amount, s_product>>
  /\ Len(all_dfs[1].rows) = 2
  /\ Len(all_dfs[2].rows) = 1
  /\ Col(df, s_amount) = <<Num(1), Num(2), Num(1)>>

\* the cells of the merged table in columns their source table lacks
Padded(i, j, c) ==
  /\ j <= Len(all_dfs[i].rows)
  /\ ~\E m \in 1..Len(all_dfs[i].columns) : all_dfs[i].columns[m] = df.columns[c]

\* C9 as stated: a merged cell in a column its source table lacks holds a
\* defined empty or zero value, not the missing marker.
C9_PaddedDefined ==
  all_dfs # <<>> =>
    \A i \in 1..Len(all_dfs) : \A j \in 1..Len(df.rows) : \A c \in 1..Len(df.columns) :
      Padded(i, j, c) => df.rows[RowsBefore(i) + j][c].k # "nan"

\* C9 amended: a merged cell in a column its source table lacks holds the
\* missing marker (NaN).
C9_PaddedMissing ==
  all_dfs # <<>> =>
    \A i \in 1..Len(all_dfs) : \A j \in 1..Len(df.rows) : \A c \in 1..Len(df.columns) :
      Padded(i, j, c) => df.rows[RowsBefore(i) + j][c] = NaN

\* an upload with an item column merged with one that got the sentinel product
C9_Witness ==
  /\ pc = "dashboard"
  /\ Len(all_dfs) = 2
  /\ df.columns = <<s_item, s_amount, c_sales, s_product>>
  /\ df.rows = << <<Num(1), Num(1), NaN, NaN>>,
                  <<NaN, Num(1), Num(1), Str(s_Unknown_Item)>> >>

\* ------------------------------------------------------------------ metrics engine properties
\* C10: unique_products is the number of distinct values in the product
\* column the classifier chose for the table, or 1 when the sentinel product
\* column was synthesized and the table has rows.
C10_UniqueProducts ==
  (pc = "dashboard" /\ data.status = "returned") =>
    IF RoleMissing("product")
    THEN Len(df.rows) > 0 => data.unique_products = 1
    ELSE data.unique_products =
           Cardinality({c \in {Col(df, RoleColumn("product"))[r] : r \in 1..Len(df.rows)} :
                          c.k # "nan"})

\* the product column of the table, as the engine's keywords find it, and
\* the amount column
ProductColumn ==
  With(Hits(df.columns, ProductKeywords), LAMBDA hits :
    IF hits = {} THEN <<>>
    ELSE With(CHOOSE i \in hits : \A j \in hits : i <= j, LAMBDA c :
           [r \in 1..Len(df.rows) |-> df.rows[r][c]]))

AmountColumn == IF HasCol(df, s_amount) THEN Col(df, s_amount) ELSE <<>>

ProductRows(products, p) == {r \in 1..Len(products) : products[r] = p}

RECURSIVE AmountOver(_, _)
AmountOver(amounts, rows) ==
  IF rows = {} THEN 0
  ELSE LET r == CHOOSE q \in rows : TRUE
       IN  Val0(amounts[r]) + AmountOver(amounts, rows \ {r})

FirstSeen(products, p) == CHOOSE r \in 1..Len(products) : products[r] = p /\ \A q \in 1..(r - 1) : products[q] # p

\* sbp has one entry per distinct product of the table, each with the sum of
\* the product's amounts, in descending order of the sums
SumsDescending(products, amounts, sbp) ==
  /\ {sbp[i].product : i \in 1..Len(sbp)}
       = {products[r] : r \in {q \in 1..Len(products) : products[q].k # "nan"}}
  /\ \A i, j \in 1..Len(sbp) : sbp[i].product = sbp[j].product => i = j
  /\ \A i \in 1..Len(sbp) : sbp[i].total = AmountOver(amounts, ProductRows(products, sbp[i].product))
  /\ \A i \in 1..(Len(sbp) - 1) : sbp[i].total >= sbp[i + 1].total

\* C11 as stated: sales_by_product lists each distinct product with the sum
\* of its rows' amounts, in descending order of the sums, and products of
\* equal sums in the order in which they first occur in the rows.
C11_FirstSeenTies ==
  pc = "dashboard" =>
    With(<<ProductColumn, AmountColumn, data.sales_by_product>>, LAMBDA v :
      /\ SumsDescending(v[1], v[2], v[3])
      /\ \A i \in 1..(Len(v[3]) - 1) :
           v[3][i].total = v[3][i + 1].total =>
             FirstSeen(v[1], v[3][i].product) < FirstSeen(v[1], v[3][i + 1].product))

\* C11 amended: sales_by_product lists each distinct non-missing product with
\* the sum of its rows' amounts, in descending order of the sums (products
\* of equal sums in no particular order).
C11_Descending ==
  pc = "dashboard" =>
    With(<<ProductColumn, AmountColumn, data.sales_by_product>>, LAMBDA v :
      SumsDescending(v[1], v[2], v[3]))

\* three orders of two products, the product seen second selling more
C11_Witness ==
  /\ pc = "dashboard"
  /\ df.columns = <<s_item, s_amount>>
  /\ df.rows = << <<Str(<<"a">>), Num(1)>>, <<Str(<<"b">>), Num(100)>>, <<Str(<<"a">>), Num(1)>> >>
  /\ data.sales_by_product = << [product |-> Str(<<"b">>), total |-> 100],
                                [product |-> Str(<<"a">>), total |-> 2] >>

\* the date-like column of the table, <<>> when it has none
TrendDates ==
  With(Hits(df.columns, DateKeywords), LAMBDA hits :
    IF hits = {} THEN <<>>
    ELSE With(CHOOSE i \in hits : \A j \in hits : i <= j, LAMBDA c :
           [r \in 1..Len(df.rows) |-> df.rows[r][c]]))

DateLt(a, b) == ~DateLeq(b, a)

\* trend holds the amounts of the rows whose date parses, ascending by date:
\* the rows of one date fill, in some order, the places after those of all
\* earlier dates
TrendByDate(dates, amounts, trend) ==
  With({r \in 1..Len(dates) : IsDate(dates[r])}, LAMBDA kept :
    /\ Len(trend) = Cardinality(kept)
    /\ \A r \in kept :
         With([lo |-> Cardinality({q \in kept : DateLt(DateKey(dates[q]), DateKey(dates[r]))}),
               hi |-> Cardinality({q \in kept : DateLeq(DateKey(dates[q]), DateKey(dates[r]))})],
              LAMBDA seg :
           Cardinality({i \in (seg.lo + 1)..seg.hi : trend[i] = amounts[r]})
             = Cardinality({q \in kept : /\ DateKey(dates[q]) = DateKey(dates[r])
                                         /\ amounts[q] = amounts[r]})))

\* C12: with a date-like column sales_trend is the amounts of the rows whose
\* date parses, in ascending date order, while total_orders is the full row
\* count and total_revenue the sum of all rows' amounts; with no date-like
\* column sales_trend is all amounts in row order.
C12_SalesTrend ==
  (pc = "dashboard" /\ HasCol(df, s_amount)) =>
    With(<<TrendDates, AmountColumn>>, LAMBDA v :
      /\ data.total_orders = Len(df.rows)
      /\ data.total_revenue = AmountOver(v[2], 1..Len(df.rows))
      /\ IF Hits(df.columns, DateKeywords) # {}
         THEN TrendByDate(v[1], v[2], data.sales_trend)
         ELSE data.sales_trend = v[2])

\* the latest date first, a row without a date in the middle
C12_Witness ==
  /\ pc = "dashboard"
  /\ df.columns = <<s_date, s_amount, s_product>>
  /\ df.rows = << <<Str(<<"2", "0", "2", "1">>), Num(100), Str(s_Unknown_Item)>>,
                  <<NaN, Num(1), Str(s_Unknown_Item)>>,
                  <<Str(<<"2", "0", "2", "0">>), Num(1), Str(s_Unknown_Item)>> >>
  /\ data.sales_trend = <<Num(1), Num(100)>>
  /\ data.total_orders = 3
  /\ data.total_revenue = 102

\* the rows whose amount is strictly greater than twice the mean amount
\* (amount > 2 * total / n, compared as amount * n > 2 * total)
HighRows(amounts) ==
  {r \in 1..Len(amounts) :
     Val0(amounts[r]) * Len(amounts) > 2 * AmountOver(amounts, 1..Len(amounts))}

\* the anomaly sentence is among the insights exactly when the mean amount is
\* positive and some row is above twice the mean; it reports the number of
\* such rows and comes after the revenue and the top-product sentence
HighValueInsight(amounts, insights) ==
  With([high  |-> {i \in 1..Len(insights) : insights[i].kind = "high"},
        rows  |-> HighRows(amounts),
        total |-> AmountOver(amounts, 1..Len(amounts))], LAMBDA v :
    /\ (v.high # {}) <=> (Len(amounts) > 0 /\ v.total > 0 /\ v.rows # {})
    /\ \A i \in v.high :
         /\ insights[i].count = Cardinality(v.rows)
         /\ \A j \in 1..Len(insights) :
              insights[j].kind \in {"revenue", "top", "top_share"} => j < i
         /\ \E j \in 1..Len(insights) : insights[j].kind = "revenue")

\* C13: generate_insights appends the anomaly sentence if and only if the
\* mean amount is > 0 and at least one row has an amount strictly greater
\* than twice the mean; the count it reports is the number of such rows, and
\* the sentence comes after the revenue and the top-product sentence.
C13_HighValue ==
  pc = "dashboard" => HighValueInsight(AmountColumn, data.insights)

\* C13 in the runs in which generate_insights returns its list
C13_WhenReturned ==
  (pc = "dashboard" /\ data.status = "returned") =>
    HighValueInsight(AmountColumn, data.insights)

\* amounts 1, 1, 1, 100 (mean 25.75): one transaction is reported
C13_Example ==
  /\ pc = "dashboard"
  /\ AmountColumn = <<Num(1), Num(1), Num(1), Num(100)>>
  /\ data.status = "returned"
  /\ \E i \in 1..Len(data.insights) :
       data.insights[i].kind = "high" /\ data.insights[i].count = 1

\* C14: for every table, one with zero rows or with a product column of
\* missing values only included, generate_dashboard_data returns its record
\* (generate_insights skips what it cannot compute and raises nothing), the
\* average order value being 0 when there are no rows.
C14_NeverRaises ==
  pc = "dashboard" =>
    /\ data.status = "returned"
    /\ Len(data.insights) >= 1
    /\ Len(df.rows) = 0 => data.avg_order_value = 0

\* ------------------------------------------------------------------ history properties
\* who uploaded the row of this id
Uploader(id) ==
  upload_history[CHOOSE i \in 1..Len(upload_history) : upload_history[i].id = id].user

\* C15: whatever logins and uploads came before, the rows /history lists
\* and /history/view/<id> and /history/merge read were uploaded by the user
\* who sends the request; a row one user uploaded is never shown to another
\* (stated of the users who have logged in).
C15_Isolation ==
  \A i \in 1..Len(history_data) :
    (session.user # "" /\ Uploader(history_data[i]) # "") =>
      Uploader(history_data[i]) = session.user

\* C5: cleaning an already cleaned cell value changes nothing
\* (clean_currency(clean_currency(v)) = clean_currency(v) for every cell v).
C5_Idempotent == pc = "recleaned" => twice = once

====
